---- MODULE Spec2Model ----
(***************************************************************************)
(* Model of baselines/common/policies_mirror.py: build_mirror_policy, the  *)
(* policy factory policy_fn, PolicyWithValue.__init__ and the evaluation   *)
(* interface (step / value).                                               *)
(*                                                                         *)
(* A TensorFlow graph is modelled symbolically: a tensor is a record that  *)
(* names the network, the variable scope and the encoded input it was      *)
(* built from; step/value evaluate those records on a fed observation.     *)
(* An observation of shape [batch, 1, Width, 1] is a sequence of rows,     *)
(* each row the sequence of pixels along axis 2.                           *)
(***************************************************************************)
EXTENDS Integers, Sequences, FiniteSets, TLC

VARIABLES env, cfg, params, pc, callArgs, err, ctorEntered, policy, rmsStore, last

vars == <<env, cfg, params, pc, callArgs, err, ctorEntered, policy, rmsStore, last>>

(***************************************************************************)
(* Bounds                                                                  *)
(***************************************************************************)
MaxBatch == 2

\* batch sizes / step counts of the documented scenarios, besides 1..MaxBatch
ScenarioBatchSizes == {5, 8, 10}
StepCounts == {1, 3, 10}
BatchSizes == (1..MaxBatch) \cup ScenarioBatchSizes

\* nsteps=None, the default of policy_fn; nsteps is read on the recurrent path only
NoSteps == 0

\* rows of an image observation along the flipped axis
ObsRows == {<<0, 0>>, <<0, 6>>}

\* parameter vectors of a feature extractor (one weight per pixel)
NetParams == {<<1, 0>>, <<0, 1>>}

\* (mean, std) values a running estimator can hold
RmsInit == [mean |-> 0, std |-> 1]
RmsStats == {RmsInit, [mean |-> 6, std |-> 1], [mean |-> 0, std |-> 2]}

NumActions == 2

Games == {"identityGame", "swapGame"}
EnvNames == Games \cup {"unknownGame"}

ActionSpaces == {"Discrete", "Box"}
ObSpaces == {[rank |-> 4, dtype |-> "float32"],
             [rank |-> 4, dtype |-> "uint8"],
             [rank |-> 2, dtype |-> "float32"]}
PolicyNetworks == {"ff", "recurrent", "tupleNone"}
ValueNetworks == {"None", "shared", "copy", "callable", "notCallable"}

NoPolicy == [built |-> FALSE]
NoCall == [nbatch |-> 0, nsteps |-> NoSteps]
NoRun == [op |-> "none"]

(***************************************************************************)
(* Graph construction: build_mirror_policy.policy_fn                       *)
(***************************************************************************)

\* tf.reverse(X, axis=[2]) is only defined for tensors of rank >= 3
ReverseAxis == 2
reverse_defined(rank) == ReverseAxis < rank

\* a network builder returns latent or (latent, recurrent_tensors)
returns_tuple(net) == net \in {"recurrent", "tupleNone"}
recurrent_tensors_present(net) == net = "recurrent"

\* nenv = nbatch // nsteps
nenv_of(nbatch, nsteps) == nbatch \div nsteps

\* assert nenv > 0
nenv_ok_nonnegative(nenv) == nenv >= 0
nenv_ok(nenv) == nenv > 0

\* if normalize_observations and X.dtype == tf.float32
normalizes(c, e) == c.normalize_observations /\ e.ob.dtype = "float32"

\* _normalize_clip_observation: rms = RunningMeanStd(shape=...) allocates a
\* fresh estimator in the store and returns the normalised tensor and its id
normalize_clip_observation(src, store) ==
    [enc |-> [src |-> src, rms |-> Len(store) + 1],
     rms |-> Len(store) + 1,
     store |-> Append(store, RmsInit)]

\* lines 148-156: encoded_x, encoded_x_mirror, extra_tensors['rms']
encode_both(c, e, store) ==
    IF normalizes(c, e)
    THEN LET n1 == normalize_clip_observation("X", store)
             n2 == normalize_clip_observation("X_mirror", n1.store)
         IN [encoded_x |-> n1.enc, encoded_x_mirror |-> n2.enc,
             rms |-> n1.rms, store |-> n2.store]
    ELSE [encoded_x |-> [src |-> "X", rms |-> 0],
          encoded_x_mirror |-> [src |-> "X_mirror", rms |-> 0],
          rms |-> 0, store |-> store]

\* policy_network(encoded) under variable_scope('pi')
policy_latent_of(c, enc) == [net |-> c.policy_network, scope |-> "pi", input |-> enc]

\* recurrent_tensors of one branch: the names it defines, tagged by branch
recurrent_tensors_of(branch, nenv) ==
    [names |-> {"S", "M", "state", "initial_state"}, branch |-> branch, nenv |-> nenv]

NoRecurrent == [names |-> {}, branch |-> "none", nenv |-> 0]

\* lines 178-190: the value-feature source
shared_value(c) == c.value_network \in {"None", "shared"}

vf_latent_of(c, enc, policy_latent) ==
    IF shared_value(c) THEN policy_latent
    ELSE IF c.value_network = "copy"
         THEN [net |-> c.policy_network, scope |-> "vf", input |-> enc]
         ELSE [net |-> "callable", scope |-> "vf", input |-> enc]

\* _v_net(encoded_x) is passed on unchanged, so with 'copy' of a network that
\* returns a tuple the constructor receives a tuple
vf_latent_is_tuple(c) == ~shared_value(c) /\ c.value_network = "copy" /\ returns_tuple(c.policy_network)

(***************************************************************************)
(* PolicyWithValue.__init__                                                *)
(***************************************************************************)

\* mirror_modify's lookup table of the game's action permutation
mirror_table(game) ==
    [a \in 1..NumActions |-> IF game = "swapGame" THEN NumActions + 1 - a ELSE a]
mirror_registered(game) == game \in Games

\* lines 36-80; returns the error raised or the constructed object
PolicyWithValue_init(e, c, X, latent, mirrorlatent, vf_latent, vfTuple, extras, rms) ==
    IF vfTuple
    THEN [err |-> "ValueError:flatten", policy |-> NoPolicy]
    ELSE IF ~mirror_registered(c.env_name)
    THEN [err |-> "UnknownSymmetryRule", policy |-> NoPolicy]
    ELSE IF c.estimate_q /\ e.action_space # "Discrete"
    THEN [err |-> "AssertionError:estimate_q", policy |-> NoPolicy]
    ELSE IF c.estimate_q
    THEN [err |-> "NameError:vf_mirror", policy |-> NoPolicy]
    ELSE [err |-> "none",
          policy |-> [built |-> TRUE,
                      X |-> X,
                      latent |-> latent,
                      mirrorlatent |-> mirrorlatent,
                      vf_latent |-> vf_latent,
                      mirror_vf_latent |-> mirrorlatent,
                      pdtype |-> e.action_space,
                      game |-> c.env_name,
                      extras |-> extras,
                      rms |-> rms]]

\* lines 142-203
policy_fn_result(e, c, nbatch, nsteps, store) ==
    IF ~reverse_defined(e.ob.rank)
    THEN [err |-> "ValueError:reverse", policy |-> NoPolicy, store |-> store, ctor |-> FALSE]
    ELSE
    LET enc == encode_both(c, e, store)
        rec == returns_tuple(c.policy_network) /\ recurrent_tensors_present(c.policy_network)
        nenv == IF rec THEN nenv_of(nbatch, nsteps) ELSE 0
    IN IF rec /\ ~nenv_ok(nenv)
       THEN [err |-> "AssertionError:nenv", policy |-> NoPolicy, store |-> enc.store, ctor |-> FALSE]
       ELSE IF ~shared_value(c) /\ c.value_network \notin {"copy", "callable"}
       THEN [err |-> "AssertionError:callable", policy |-> NoPolicy, store |-> enc.store, ctor |-> FALSE]
       ELSE
       LET policy_latent == policy_latent_of(c, enc.encoded_x)
           policy_latent_mirror == policy_latent_of(c, enc.encoded_x_mirror)
           extras == IF rec THEN recurrent_tensors_of("orig", nenv) ELSE NoRecurrent
           vf_latent == vf_latent_of(c, enc.encoded_x, policy_latent)
           r == PolicyWithValue_init(e, c, [nbatch |-> nbatch, ob |-> e.ob],
                                     policy_latent, policy_latent_mirror, vf_latent,
                                     vf_latent_is_tuple(c), extras, enc.rms)
       IN [err |-> r.err, policy |-> r.policy, store |-> enc.store, ctor |-> TRUE]

(***************************************************************************)
(* Forward evaluation of the graph (sess.run in _evaluate)                 *)
(***************************************************************************)
RECURSIVE Pow2(_)
Pow2(n) == IF n <= 0 THEN 1 ELSE 2 * Pow2(n - 1)

RECURSIVE SumSeq(_)
SumSeq(s) == IF s = <<>> THEN 0 ELSE Head(s) + SumSeq(Tail(s))

MinOf(s) == CHOOSE m \in {s[i] : i \in DOMAIN s} : \A i \in DOMAIN s : m <= s[i]

ReverseSeq(s) == [i \in 1..Len(s) |-> s[Len(s) + 1 - i]]

\* tf.reverse(X, axis=[2]): every row reversed along the width axis
reverse(obs) == [i \in 1..Len(obs) |-> ReverseSeq(obs[i])]

\* tf.clip_by_value(v, min(clip_range), max(clip_range))
ClipMin == -5
ClipMax == 5
clip_by_value(v) == IF v < ClipMin THEN ClipMin ELSE IF v > ClipMax THEN ClipMax ELSE v

\* (x - rms.mean) / rms.std, clipped
normalize_row(row, stats) ==
    [j \in 1..Len(row) |-> clip_by_value((row[j] - stats.mean) \div stats.std)]

\* value of encoded_x / encoded_x_mirror for a fed observation
eval_encoded(enc, obs, store) ==
    LET raw == IF enc.src = "X" THEN obs ELSE reverse(obs)
    IN IF enc.rms = 0 THEN raw
       ELSE [i \in 1..Len(raw) |-> normalize_row(raw[i], store[enc.rms])]

Dot(w, row) == SumSeq([j \in 1..Len(row) |-> w[j] * row[j]])

\* a feature extractor applied to one row, with the parameters of its scope;
\* the caller-supplied value network is a different function of its input
network(net, w, row) ==
    IF net = "callable" THEN <<Dot(w, row) + 1>> ELSE <<Dot(w, row)>>

\* value of a latent tensor (flattened): one feature vector per row
eval_latent(t, obs, store, prm) ==
    LET x == eval_encoded(t.input, obs, store)
    IN [i \in 1..Len(x) |-> network(t.net, prm[t.scope], x[i])]

\* tf.concat([a, b], axis=0)
concat_swapped(a, b) == b \o a
concat(a, b) == a \o b

\* t[0:n, :]
first_rows_from_mirror(t, n) == SubSeq(t, n + 1, Len(t))
first_rows(t, n) == SubSeq(t, 1, n)

\* t[n:, :]
rest_rows(t, n) == SubSeq(t, n + 1, Len(t))

\* the linear layer of the distribution head, applied row by row
pd_head(row) == [a \in 1..NumActions |-> IF a = 1 THEN row[1] ELSE 0]

\* pdtype.pdfromlatent(latent_all): parameters for every row of the combined
\* batch, and the distribution object over the original-branch rows
pdfromlatent(latent_all) ==
    LET pi_all == [i \in 1..Len(latent_all) |-> pd_head(latent_all[i])]
    IN [pd |-> SubSeq(pi_all, 1, Len(pi_all) \div 2), pi_all |-> pi_all]

\* mirror_modify(pi_mirror, game): reindex the action parameters of each row
mirror_modify(pi_mirror, game) ==
    [i \in 1..Len(pi_mirror) |->
        [a \in 1..NumActions |-> pi_mirror[i][mirror_table(game)[a]]]]

\* tf.nn.softmax of one row, as exact fractions num[a] / den (base 2)
softmax(l) ==
    LET m == MinOf(l)
        num == [a \in 1..Len(l) |-> Pow2(l[a] - m)]
    IN [num |-> num, den |-> SumSeq(num)]

square(x) == x * x

\* tf.reduce_mean(tf.square(p - q), 1) for one row, as the fraction num / den
mean_square_diff(p, q) ==
    [num |-> SumSeq([a \in 1..Len(p.num) |-> square(p.num[a] * q.den - q.num[a] * p.den)]),
     den |-> Len(p.num) * square(p.den * q.den)]

\* fc(vf_latent_all, 'vf', 1)[:, 0] for one row
vf_head(row) == row[1]

\* pd.sample(): the outcomes of one draw, one action per row of pd
SampleNoise == {[a \in 1..NumActions |-> 0], [a \in 1..NumActions |-> IF a = 1 THEN 1 ELSE 0]}
sample_set(pdtype, pd) ==
    IF pdtype = "Discrete"
    THEN [1..Len(pd) -> {<<a>> : a \in 1..NumActions}]
    ELSE {[i \in 1..Len(pd) |-> [j \in 1..NumActions |-> pd[i][j] + n[j]]] : n \in SampleNoise}

\* pd.neglogp(action) for one row: -log(den / num) for the categorical
\* family, num / den for the unit-variance Gaussian (constant term dropped)
neglogp_row(pdtype, flat, a) ==
    IF pdtype = "Discrete"
    THEN [num |-> softmax(flat).den, den |-> softmax(flat).num[a[1]]]
    ELSE [num |-> SumSeq([j \in 1..Len(flat) |-> square(a[j] - flat[j])]), den |-> 2]

\* value of self.state: tf.constant([]) unless a 'state' extra replaced it;
\* the recurrent state of a branch is one row per environment
eval_state(p, latentRows) ==
    IF "state" \in p.extras.names THEN SubSeq(latentRows, 1, p.extras.nenv) ELSE <<>>

\* all tensors of PolicyWithValue.__init__ evaluated on obs, with `a` the draw
forward(p, obs, store, prm, a) ==
    LET latent == eval_latent(p.latent, obs, store, prm)
        mirrorlatent == eval_latent(p.mirrorlatent, obs, store, prm)
        vf_latent == eval_latent(p.vf_latent, obs, store, prm)
        mirror_vf_latent == eval_latent(p.mirror_vf_latent, obs, store, prm)
        latent_all == concat(latent, mirrorlatent)
        vf_latent_all == concat(vf_latent, mirror_vf_latent)
        head == pdfromlatent(latent_all)
        pi == first_rows(head.pi_all, Len(latent))
        pi_mirror == rest_rows(head.pi_all, Len(latent))
        pi_modified == mirror_modify(pi_mirror, p.game)
        vf_all == [i \in 1..Len(vf_latent_all) |-> vf_head(vf_latent_all[i])]
        vf == first_rows(vf_all, Len(vf_latent))
        vf_mirror == rest_rows(vf_all, Len(vf_latent))
    IN [obs |-> obs,
        latent_all |-> latent_all,
        vf_latent_all |-> vf_latent_all,
        pi_all |-> head.pi_all,
        pi |-> pi,
        pi_mirror |-> pi_mirror,
        neglogp |-> [i \in 1..Len(a) |-> neglogp_row(p.pdtype, head.pd[i], a[i])],
        policy_mirrorloss |-> [i \in 1..Len(pi) |->
                                 mean_square_diff(softmax(pi[i]), softmax(pi_modified[i]))],
        vf |-> vf,
        action |-> a,
        vf_mirror |-> vf_mirror,
        value_mirrorloss |-> [i \in 1..Len(vf) |-> square(vf[i] - vf_mirror[i])],
        state |-> eval_state(p, latent)]

\* self.vf evaluated alone (value)
eval_vf(p, obs, store, prm) ==
    LET vf_latent == eval_latent(p.vf_latent, obs, store, prm)
        vf_latent_all == concat(vf_latent, eval_latent(p.mirror_vf_latent, obs, store, prm))
        vf_all == [i \in 1..Len(vf_latent_all) |-> vf_head(vf_latent_all[i])]
    IN first_rows(vf_all, Len(vf_latent))

\* the draws of self.action for a fed observation
draws(p, obs, store, prm) ==
    sample_set(p.pdtype, pdfromlatent(concat(eval_latent(p.latent, obs, store, prm),
                                             eval_latent(p.mirrorlatent, obs, store, prm))).pd)

\* step: if state.size == 0: state = None
NoneState == <<"None">>
state_never_none(state) == state
state_or_none(state) == IF Len(state) = 0 THEN NoneState ELSE state

(***************************************************************************)
(* State machine                                                           *)
(***************************************************************************)
Configs == [policy_network : PolicyNetworks, value_network : ValueNetworks,
            normalize_observations : BOOLEAN, estimate_q : BOOLEAN,
            env_name : EnvNames]
Envs == [action_space : ActionSpaces, ob : ObSpaces]

\* state after build_mirror_policy(...) returned the closure policy_fn
Init ==
    /\ env \in Envs
    /\ cfg \in Configs
    /\ params \in [pi : NetParams, vf : NetParams]
    /\ pc = "built"
    /\ callArgs = NoCall
    /\ err = "none"
    /\ ctorEntered = FALSE
    /\ policy = NoPolicy
    /\ rmsStore = <<>>
    /\ last = NoRun

policy_fn ==
    /\ pc = "built"
    /\ \E nbatch \in BatchSizes,
          nsteps \in (IF recurrent_tensors_present(cfg.policy_network) THEN StepCounts ELSE {NoSteps}) :
        LET r == policy_fn_result(env, cfg, nbatch, nsteps, rmsStore)
        IN /\ callArgs' = [nbatch |-> nbatch, nsteps |-> nsteps]
           /\ err' = r.err
           /\ policy' = r.policy
           /\ rmsStore' = r.store
           /\ ctorEntered' = r.ctor
    /\ pc' = "called"
    /\ UNCHANGED <<env, cfg, params, last>>

\* observations that can be fed to a policy built for nbatch rows
Observations(nbatch) == [1..nbatch -> ObsRows]

\* PolicyWithValue.step: one blocking forward evaluation, then the return
step ==
    /\ pc = "called"
    /\ policy.built
    /\ policy.X.nbatch <= MaxBatch
    /\ \E obs \in Observations(policy.X.nbatch) :
         \E a \in draws(policy, obs, rmsStore, params) :
           LET f == forward(policy, obs, rmsStore, params, a)
           IN last' = [op |-> "step", run |-> f,
                       ret |-> [a |-> f.action, v |-> f.vf,
                                state |-> state_or_none(f.state),
                                neglogp |-> f.neglogp]]
    /\ pc' = "returned"
    /\ UNCHANGED <<env, cfg, params, callArgs, err, ctorEntered, policy, rmsStore>>

\* PolicyWithValue.value
value ==
    /\ pc = "called"
    /\ policy.built
    /\ policy.X.nbatch <= MaxBatch
    /\ \E obs \in Observations(policy.X.nbatch) :
         last' = [op |-> "value", obs |-> obs,
                  ret |-> eval_vf(policy, obs, rmsStore, params)]
    /\ pc' = "returned"
    /\ UNCHANGED <<env, cfg, params, callArgs, err, ctorEntered, policy, rmsStore>>

\* the caller consumes the returned tuple and is ready for the next call
resume ==
    /\ pc = "returned"
    /\ pc' = "called"
    /\ last' = NoRun
    /\ UNCHANGED <<env, cfg, params, callArgs, err, ctorEntered, policy, rmsStore>>

\* the training driver updates the statistics of the estimator it was handed
\* as the `rms` extra
rms_update ==
    /\ pc = "called"
    /\ policy.built
    /\ policy.rms # 0
    /\ \E st \in RmsStats : rmsStore' = [rmsStore EXCEPT ![policy.rms] = st]
    /\ UNCHANGED <<env, cfg, params, pc, callArgs, err, ctorEntered, policy, last>>

Next == policy_fn \/ step \/ value \/ resume \/ rms_update

Spec == Init /\ [][Next]_vars
(***************************************************************************)
(* Properties                                                              *)
(***************************************************************************)
Called == pc # "built"
Stepped == last.op = "step"
BatchOf == policy.X.nbatch
OrigLatent == eval_latent(policy.latent, last.run.obs, rmsStore, params)
MirrorLatent == eval_latent(policy.mirrorlatent, last.run.obs, rmsStore, params)
OrigVfLatent == eval_latent(policy.vf_latent, last.run.obs, rmsStore, params)
IsRecurrent == cfg.policy_network = "recurrent"

\* C1: the combined latent batch has 2B rows, rows [0,B) the original-branch
\* latents in order and rows [B,2B) the mirrored-branch latents in order, and
\* the split of the logits gives two halves of B rows that correspond row for
\* row to the original and to the mirrored branch.
C1_CombinedBatchSplit ==
    Stepped =>
        /\ Len(last.run.latent_all) = 2 * BatchOf
        /\ Len(last.run.pi_all) = 2 * BatchOf
        /\ Len(last.run.pi) = BatchOf
        /\ Len(last.run.pi_mirror) = BatchOf
        /\ \A i \in 1..BatchOf :
             /\ last.run.latent_all[i] = OrigLatent[i]
             /\ last.run.latent_all[BatchOf + i] = MirrorLatent[i]
             /\ last.run.pi[i] = pd_head(OrigLatent[i])
             /\ last.run.pi_mirror[i] = pd_head(MirrorLatent[i])

C1_Witness ==
    /\ Stepped
    /\ BatchOf >= 2
    /\ OrigLatent[1] # MirrorLatent[1]
    /\ OrigLatent[1] # OrigLatent[2]

ActionInSupport(pdtype, flat, a) ==
    IF pdtype = "Discrete"
    THEN Len(a) = 1 /\ a[1] \in 1..NumActions
    ELSE [j \in 1..Len(flat) |-> a[j] - flat[j]] \in SampleNoise

C3_LossesZeroOnSymmetricInput ==
    Stepped =>
        /\ \A i \in 1..BatchOf :
             /\ last.run.policy_mirrorloss[i].num >= 0
             /\ last.run.policy_mirrorloss[i].den > 0
             /\ last.run.value_mirrorloss[i] >= 0
        /\ (reverse(last.run.obs) = last.run.obs /\ mirror_table(policy.game) = [a \in 1..NumActions |-> a])
             => \A i \in 1..BatchOf :
                  /\ last.run.policy_mirrorloss[i].num = 0
                  /\ last.run.value_mirrorloss[i] = 0

C5_EstimateQSucceedsIffDiscrete ==
    (/\ ctorEntered
     /\ cfg.estimate_q
     /\ mirror_registered(cfg.env_name)
     /\ ~vf_latent_is_tuple(cfg))
    => /\ policy.built <=> env.action_space = "Discrete"
       /\ env.action_space # "Discrete" => err = "AssertionError:estimate_q"

\* C6 (as claimed): with normalisation on a float observation one invocation
\* creates a single estimator, both branches are normalised through it and it
\* is the one exposed as `rms`; otherwise neither branch is normalised.
C6_SingleSharedEstimator ==
    policy.built =>
        IF normalizes(cfg, env)
        THEN /\ Len(rmsStore) = 1
             /\ policy.latent.input.rms = policy.rms
             /\ policy.mirrorlatent.input.rms = policy.rms
        ELSE /\ policy.latent.input.rms = 0
             /\ policy.mirrorlatent.input.rms = 0
             /\ policy.rms = 0

\* C7 (as claimed): value_network='copy' with a recurrent policy network
\* fails fast with an unsupported-configuration error before the constructor
\* of the policy object is entered.
C7_CopyRecurrentFailsFast ==
    (/\ Called
     /\ cfg.value_network = "copy"
     /\ IsRecurrent
     /\ reverse_defined(env.ob.rank)
     /\ nenv_ok(nenv_of(callArgs.nbatch, callArgs.nsteps)))
    => (err = "NotImplementedError" /\ ~ctorEntered)

\* C8: step returns next_state = None exactly when the network is not
\* recurrent; with a recurrent network it returns the recurrent state of the
\* original branch, and only the original branch's recurrent tensors are
\* stored on the policy object.
C8_NextStateNoneIffNotRecurrent ==
    /\ policy.built => policy.extras.branch # "mirror"
    /\ policy.built => (("state" \in policy.extras.names) <=> IsRecurrent)
    /\ Stepped =>
         /\ (last.ret.state = NoneState) <=> ~IsRecurrent
         /\ IsRecurrent => last.ret.state = SubSeq(OrigLatent, 1, policy.extras.nenv)

C8_Witness ==
    /\ Stepped
    /\ IsRecurrent
    /\ BatchOf >= 2
    /\ last.ret.state # NoneState
    /\ OrigLatent # MirrorLatent

\* C9 (as claimed): building with a feed-forward network on an observation
\* tensor of shape [batch, 4], a continuous action space and batch size 8
\* succeeds.
C9_EndToEndVectorObservation ==
    (/\ Called
     /\ cfg.policy_network = "ff"
     /\ env.ob = [rank |-> 2, dtype |-> "float32"]
     /\ env.action_space = "Box"
     /\ callArgs.nbatch = 8
     /\ ~cfg.estimate_q
     /\ shared_value(cfg)
     /\ mirror_registered(cfg.env_name))
    => (err = "none" /\ policy.built)

\* C10 (as claimed): rows [B,2B) of the value head's input are the
\* value-feature source (same network, same scope) applied to the mirrored
\* observation.
C10_ValueMirrorRowsFromValueSource ==
    Stepped =>
        \A i \in 1..BatchOf :
            last.run.vf_latent_all[BatchOf + i] =
                eval_latent([policy.vf_latent EXCEPT !.input = policy.mirrorlatent.input],
                            last.run.obs, rmsStore, params)[i]
====
